---- MODULE Spec2Model ----
(***************************************************************************)
(* The Player component of autoshorts-ai as a state machine.               *)
(*                                                                         *)
(* Two versions of the component are in the repository:                    *)
(*   src/components/Player.tsx  playAll / stopAll / exportToMp4            *)
(*   src/unnamed/part_000       playAudio / stopAudio / togglePlay /       *)
(*                              handleExport                               *)
(* The variable `variant` says which of the two is mounted.  One action    *)
(* is one event-loop task: a click handler, a timer or media callback, or  *)
(* the continuation of an async function from one await to the next.       *)
(*                                                                         *)
(* Numbers: JavaScript numbers are modelled as exact rationals             *)
(* [num, den]; the duration of the narration is durNum / DurDen seconds.   *)
(***************************************************************************)
EXTENDS Integers, Sequences, FiniteSets, TLC

\* ---------------------------------------------------------------- bounds
MaxScenes == 2          \* videoUrls.length of the mounted player
MaxSessions == 3        \* playback sessions started in one run
DurDen == 7             \* durations are multiples of 1/DurDen seconds
PlayerDur == 1          \* the mounted player's narration lasts PlayerDur / DurDen s
MaxSeconds == 10        \* frame arithmetic: narrations of up to MaxSeconds s
MaxFrameScenes == 4     \* frame arithmetic: up to MaxFrameScenes scenes
MaxAppScenes == 3       \* the App: scripts of up to MaxAppScenes scenes

\* ------------------------------------------------------ program constants
fps == 30

NewPlayer == "Player.tsx"
OldPlayer == "part_000"
Vp9 == "video/webm;codecs=vp9"
Mp4 == "video/mp4"

\* ------------------------------------------------------------ arithmetic
\* The element of a one-element set.  An operator's argument is evaluated
\* each time the body names it; bound to the element of a one-element set
\* it is evaluated once, which is how the operators below take theirs.
Only(S) == CHOOSE x \in S : TRUE

RECURSIVE GCD(_, _)
GCD(a, b) == IF b = 0 THEN a ELSE Only({GCD(y, x % y) : x \in {a}, y \in {b}})

\* The number n / d (n >= 0, d > 0), in lowest terms.
Rat(n, d) ==
    Only({[num |-> t[1] \div t[3], den |-> t[2] \div t[3]] :
            t \in {<<x, y, GCD(x, y)>> : x \in {n}, y \in {d}}})
RatLE(a, b) == Only({x.num * y.den <= y.num * x.den : x \in {a}, y \in {b}})
RatMin(a, b) == Only({IF RatLE(x, y) THEN x ELSE y : x \in {a}, y \in {b}})
RatAdd(a, b) ==
    Only({Rat(x.num * y.den + y.num * x.den, x.den * y.den) : x \in {a}, y \in {b}})
RatMul(a, b) == Only({Rat(x.num * y.num, x.den * y.den) : x \in {a}, y \in {b}})
\* a / b for b > 0
RatDiv(a, b) == Only({Rat(x.num * y.den, x.den * y.num) : x \in {a}, y \in {b}})
\* Math.ceil and Math.floor of a number >= 0
Ceil(a) == Only({(x.num + x.den - 1) \div x.den : x \in {a}})
Floor(a) == Only({x.num \div x.den : x \in {a}})
Min(a, b) == IF a <= b THEN a ELSE b

VARIABLES
    variant,            \* which Player source is mounted
    audioBuffer,        \* prop: "null" or "buffer"
    durNum,             \* audioBuffer.duration = durNum / DurDen seconds
    sceneCount,         \* prop: videoUrls.length
    isImage,            \* isImage[i]: videoUrls[i] starts with data:image
    supported,          \* the MIME types MediaRecorder supports here
    mounted,            \* the parent renders the Player
    bgmBuffer,          \* "null" or "buffer"
    isBgmLoading,       \* loadBgm has not finished
    isPlaying,
    currentIndex,
    prevIndex,
    currentVideoIndex,
    isExporting,
    isExportMenuOpen,
    exportProgress,
    exportFormat,
    audioContextRef,    \* 0 (null) or the session whose context it holds
    narrationSourceRef, \* 0 (null) or the session of the source it holds
    bgmSourceRef,
    running,            \* speaker-bound sources that are playing: <<kind, session>>
    endedPending,       \* sessions whose narration `ended` event is queued
    nextSession,
    loops,              \* the playAll invocations suspended at their timer
    timerQueue,         \* their sessions, in the order in which the timers fire
    videoPlaying,       \* indices of the scene <video> elements that play
    exportPc,           \* where the export job is suspended
    loaded,             \* assets loaded so far (scene being recorded, part_000)
    frame,              \* the frame loop's variable
    currentScene,
    drawCount,          \* drawImage calls of the job's frame loop
    drawn,              \* what the last drawImage call drew
    recorder,           \* "none", "recording", "inactive"
    captureRunning,     \* capture-bound sources that are playing
    exportCtx,          \* the export's AudioContext: "none", "open", "closed"
    exportLog,          \* what the export's first synchronous step did, in order
    alerts,             \* alert() calls of the job
    downloads,          \* a.click() calls of the job
    raised,             \* an exception escaped a handler
    state,              \* App: the AppState shown
    topic,
    assets,             \* App: script, videoUrls, audioBuffer
    storage,            \* localStorage's STORAGE_KEY entry
    aistudio,           \* window.aistudio is present
    runPc,              \* where the handleGenerate run is suspended
    resumeAssets,       \* the run's resumeAssets argument
    pipelineScenes,     \* the run's pipelineScenes
    sceneI,             \* the video loop's i (counted from 1)
    scenesWithVideo,    \* the run's scenesWithVideo
    attempts,           \* generateVideos requests of the generateVeoVideo call
    isRetry             \* attemptGeneration's isRetry

\* The App that renders the Player: its state, the stored session and the
\* handleGenerate run.
appVars == <<state, topic, assets, storage, aistudio, runPc, resumeAssets,
             pipelineScenes, sceneI, scenesWithVideo, attempts, isRetry>>
\* What the Player is given by the App, and the App behind it.
inputVars == <<variant, audioBuffer, durNum, sceneCount, isImage, supported, mounted,
               appVars>>
bgmVars == <<bgmBuffer, isBgmLoading>>
uiVars == <<isPlaying, currentIndex, prevIndex, currentVideoIndex, videoPlaying>>
menuVars == <<isExportMenuOpen, exportFormat>>
audioVars == <<audioContextRef, narrationSourceRef, bgmSourceRef, running,
               endedPending, nextSession, raised>>
frameVars == <<frame, currentScene, drawCount, drawn>>
exportVars == <<isExporting, exportProgress, exportPc, loaded, recorder,
                captureRunning, exportCtx, exportLog, alerts, downloads>>
loopVars == <<loops, timerQueue>>
vars == <<inputVars, bgmVars, uiVars, menuVars, audioVars, loopVars, frameVars,
          exportVars>>

Scenes == 0 .. (sceneCount - 1)

\* ------------------------------------------------- timeline arithmetic
\* audioBuffer.duration
duration == Rat(durNum, DurDen)
\* the narration divided over one scene too many
SceneDurationOffByOne == RatDiv(duration, Rat(sceneCount + 1, 1))
\* const sceneDuration = audioBuffer.duration / videoUrls.length
sceneDuration == RatDiv(duration, Rat(sceneCount, 1))
\* the frame count rounded down
FloorFrames == Floor(RatMul(duration, Rat(fps, 1)))
\* const totalFrames = Math.ceil(audioBuffer.duration * fps)
totalFrames == Ceil(RatMul(duration, Rat(fps, 1)))
\* const framesPerScene = Math.ceil(sceneDuration * fps)
framesPerScene == Ceil(RatMul(sceneDuration, Rat(fps, 1)))
\* Math.min(Math.floor(frame / framesPerScene), videoUrls.length - 1)
ModScene(f) == Min(f % framesPerScene, sceneCount - 1)
newScene(f) == Min(Floor(Rat(f, framesPerScene)), sceneCount - 1)
\* const frameInScene = frame % framesPerScene
frameInScene(f) == f % framesPerScene
\* the transition window without its cap at half a scene
UncappedTransitionFrames == Rat(fps * 7, 10)
\* const transitionFrames = Math.min(fps * 0.7, framesPerScene / 2)
transitionFrames == RatMin(Rat(fps * 7, 10), Rat(framesPerScene, 2))
\* const transitionProgress = Math.min(frameInScene / transitionFrames, 1)
UnclampedProgress(f) == RatDiv(Rat(frameInScene(f), 1), transitionFrames)
transitionProgress(f) ==
    RatMin(RatDiv(Rat(frameInScene(f), 1), transitionFrames), Rat(1, 1))

\* a - b for a >= b
RatSub(a, b) == Only({Rat(x.num * y.den - y.num * x.den, x.den * y.den) : x \in {a}, y \in {b}})

\* type TransitionType = 'fade' | 'slide' | 'zoom'
TransitionTypes == {"fade", "slide", "zoom"}
\* a zoom that grows from 0.8 by a tenth of the progress
HalfZoom(kind, p) ==
    CASE kind = "fade" -> [alpha |-> p, scale |-> Rat(1, 1), offset |-> Rat(0, 1)]
      [] kind = "slide" ->
            [alpha |-> Rat(1, 1), scale |-> Rat(1, 1), offset |-> RatSub(Rat(1, 1), p)]
      [] kind = "zoom" ->
            LET scale == RatAdd(Rat(8, 10), RatMul(Rat(1, 10), p))
            IN [alpha |-> p, scale |-> scale,
                offset |-> RatDiv(RatSub(Rat(1, 1), scale), Rat(2, 1))]
\* switch (transitionType): what the canvas state does to the asset drawn
\* with progress p.  alpha is ctx.globalAlpha, scale the factor of
\* ctx.scale, offset the horizontal translation in canvas widths: of
\* translate(slideOffset, 0) for a slide, and for a zoom the net of
\* translate(w / 2, h / 2), scale(s, s), translate(-w / 2, -h / 2).
ApplyTransition(kind, p) ==
    CASE kind = "fade" -> [alpha |-> p, scale |-> Rat(1, 1), offset |-> Rat(0, 1)]
      [] kind = "slide" ->
            [alpha |-> Rat(1, 1), scale |-> Rat(1, 1), offset |-> RatSub(Rat(1, 1), p)]
      [] kind = "zoom" ->
            LET scale == RatAdd(Rat(8, 10), RatMul(Rat(2, 10), p))
            IN [alpha |-> p, scale |-> scale,
                offset |-> RatDiv(RatSub(Rat(1, 1), scale), Rat(2, 1))]

NoDraw == [frame |-> -1, scene |-> -1, frameInScene |-> -1, progress |-> Rat(0, 1)]
\* One iteration of the frame loop up to ctx.drawImage: what is drawn for frame f.
DrawFrame(f) ==
    [frame |-> f, scene |-> newScene(f), frameInScene |-> frameInScene(f),
     progress |-> transitionProgress(f)]

\* --------------------------------------------------------------- the App
\* AppState.  The App's error, videoProgress, isResuming and selectedStyle
\* are display state that no step of the run reads; they are left out.
Generating ==
    {"GENERATING_SCRIPT", "GENERATING_IMAGE", "GENERATING_VIDEO", "GENERATING_AUDIO"}

\* A script is the list of its scenes, each scene named by its place in the
\* script that generateScript returned; a clip is named by the scene whose
\* image and prompt it was generated from.  NoUrl is the empty string.
NoUrl == -1
NoScript == [has |-> FALSE, scenes |-> <<>>]
NoAssets == [script |-> NoScript, videoUrls |-> <<>>, audioBuffer |-> "null"]
Absent == [present |-> FALSE, state |-> "IDLE", topic |-> "", assets |-> NoAssets]
NoResume == [given |-> FALSE, assets |-> NoAssets]

\* The App's useState initial values, with no run in progress.
AppMounted ==
    /\ state = "IDLE"
    /\ topic = ""
    /\ assets = NoAssets
    /\ runPc = "none"
    /\ resumeAssets = NoResume
    /\ pipelineScenes = <<>>
    /\ sceneI = 0
    /\ scenesWithVideo = <<>>
    /\ attempts = 0
    /\ isRetry = FALSE

\* The App as constructed in a browser that holds no session.  The Player
\* specifications take the Player's props as free inputs and leave the App
\* as constructed.
AppConstructed ==
    /\ AppMounted
    /\ storage = Absent
    /\ aistudio = FALSE

\* ------------------------------------------------------------------ Init
\* The scene lists tried: clips only, images only, an image followed by clips.
ImageLayouts(n) ==
    {[i \in 0 .. (n - 1) |-> FALSE], [i \in 0 .. (n - 1) |-> TRUE],
     [i \in 0 .. (n - 1) |-> i = 0]}

Init ==
    /\ variant \in {NewPlayer, OldPlayer}
    /\ audioBuffer \in {"null", "buffer"}
    /\ durNum = PlayerDur
    /\ sceneCount \in 1 .. MaxScenes
    \* part_000 renders every URL in a <video>; Player.tsx renders data:image
    \* URLs in an <img>
    /\ isImage \in ImageLayouts(sceneCount)
    /\ (variant = OldPlayer => \A i \in 0 .. (sceneCount - 1) : ~isImage[i])
    \* Player.tsx never asks for video/mp4
    /\ supported \in SUBSET {Mp4, Vp9}
    /\ (variant = NewPlayer => Mp4 \notin supported)
    /\ mounted = TRUE
    /\ bgmBuffer = "null"
    /\ isBgmLoading = TRUE
    /\ isPlaying = FALSE
    /\ currentIndex = 0
    /\ prevIndex = -1
    /\ currentVideoIndex = 0
    /\ isExporting = FALSE
    /\ isExportMenuOpen = FALSE
    /\ exportProgress = 0
    \* part_000: the mount effect sets the format from isTypeSupported
    /\ exportFormat = IF variant = OldPlayer /\ Mp4 \in supported THEN "mp4" ELSE "webm"
    /\ audioContextRef = 0
    /\ narrationSourceRef = 0
    /\ bgmSourceRef = 0
    /\ running = {}
    /\ endedPending = {}
    /\ nextSession = 1
    /\ loops = {}
    /\ timerQueue = <<>>
    /\ videoPlaying = {}
    /\ exportPc = "idle"
    /\ loaded = 0
    /\ frame = 0
    /\ currentScene = 0
    /\ drawCount = 0
    /\ drawn = NoDraw
    /\ recorder = "none"
    /\ captureRunning = {}
    /\ exportCtx = "none"
    /\ exportLog = <<>>
    /\ alerts = 0
    /\ downloads = 0
    /\ raised = FALSE
    /\ AppConstructed

\* --------------------------------------------------------------- loadBgm
\* fetch, arrayBuffer and decodeAudioData succeeded: setBgmBuffer(decoded)
BgmLoaded ==
    /\ mounted
    /\ isBgmLoading
    /\ bgmBuffer' = "buffer"
    /\ isBgmLoading' = FALSE
    /\ UNCHANGED <<inputVars, uiVars, menuVars, audioVars, loopVars, frameVars, exportVars>>

\* one of them threw: the catch logs, the buffer stays null
BgmFailed ==
    /\ mounted
    /\ isBgmLoading
    /\ isBgmLoading' = FALSE
    /\ UNCHANGED <<inputVars, bgmBuffer, uiVars, menuVars, audioVars, loopVars, frameVars,
                   exportVars>>

\* ------------------------------------------------------- the audio state
\* The part of the state that play and stop work on.
PlayerState ==
    [narrationSourceRef |-> narrationSourceRef, bgmSourceRef |-> bgmSourceRef,
     audioContextRef |-> audioContextRef, running |-> running,
     endedPending |-> endedPending, nextSession |-> nextSession,
     videoPlaying |-> videoPlaying, isPlaying |-> isPlaying, raised |-> raised]

\* The next state holds st.
SetPlayerState(st) ==
    /\ narrationSourceRef' = st.narrationSourceRef
    /\ bgmSourceRef' = st.bgmSourceRef
    /\ audioContextRef' = st.audioContextRef
    /\ running' = st.running
    /\ endedPending' = st.endedPending
    /\ nextSession' = st.nextSession
    /\ videoPlaying' = st.videoPlaying
    /\ isPlaying' = st.isPlaying
    /\ raised' = st.raised

\* ref.current?.stop(): nothing for a null ref, and the source the ref holds
\* stops playing.  AudioScheduledSourceNode.stop() throws only for a source
\* that was never started.
SourceStopped(st, kind, ref) == st.running \ {<<kind, ref>>}

\* The sources started so far are those of the sessions below nextSession.
StopThrows(st, ref) == ref # 0 /\ ref >= st.nextSession

\* Player.tsx stopAll; a stop() that throws ends the function there
stopAll(st) ==
    IF StopThrows(st, st.narrationSourceRef)
    THEN [st EXCEPT !.raised = TRUE]
    ELSE IF StopThrows(st, st.bgmSourceRef)
    THEN [st EXCEPT
            !.running = SourceStopped(st, "narration", st.narrationSourceRef),
            !.raised = TRUE]
    ELSE [st EXCEPT
            !.running = SourceStopped(st, "narration", st.narrationSourceRef)
                            \cap SourceStopped(st, "bgm", st.bgmSourceRef),
            !.audioContextRef = 0,
            !.videoPlaying = {},
            !.isPlaying = FALSE]

\* part_000 stopAudio.  Stopping a narration source that is playing makes it
\* fire its `ended` event, as reaching the end of the buffer does.
stopAudio(st) ==
    [st EXCEPT
        !.running = SourceStopped(st, "narration", st.narrationSourceRef)
                        \cap SourceStopped(st, "bgm", st.bgmSourceRef),
        !.endedPending = IF <<"narration", st.narrationSourceRef>> \in st.running
                         THEN @ \cup {st.narrationSourceRef} ELSE @,
        !.narrationSourceRef = 0,
        !.bgmSourceRef = 0]

\* a play operation that starts a background source without a buffer
StartedSourcesWithBgm(s) == {<<"narration", s>>, <<"bgm", s>>}
\* The speaker-bound sources a play operation starts for session s, all in
\* the one synchronous run of the function.
StartedSources(s) ==
    {<<"narration", s>>} \cup (IF bgmBuffer = "buffer" THEN {<<"bgm", s>>} ELSE {})

\* ------------------------------------------------- Player.tsx: playback
\* playAll from `stopAll()` to its first await (the timer of scene 0)
StartSession(st) ==
    [stopAll(st) EXCEPT
        !.isPlaying = TRUE,
        !.audioContextRef = st.nextSession,
        !.narrationSourceRef = st.nextSession,
        !.bgmSourceRef = IF bgmBuffer = "buffer" THEN st.nextSession ELSE @,
        !.running = @ \cup StartedSources(st.nextSession),
        !.videoPlaying = IF isImage[0] THEN {} ELSE {0},
        !.nextSession = @ + 1]

\* playAll without its setPrevIndex(-1)
playAllKeepsPrev ==
    IF audioBuffer = "null"
    THEN UNCHANGED vars
    ELSE /\ nextSession <= MaxSessions
         /\ SetPlayerState(StartSession(PlayerState))
         /\ currentIndex' = 0
         /\ loops' = loops \cup
                {[session |-> nextSession, i |-> 0, elapsed |-> Rat(0, 1)]}
         /\ timerQueue' = Append(timerQueue, nextSession)
         /\ UNCHANGED <<inputVars, bgmVars, prevIndex, currentVideoIndex, menuVars,
                        frameVars, exportVars>>

playAll ==
    IF audioBuffer = "null"
    THEN UNCHANGED vars
    ELSE /\ nextSession <= MaxSessions
         /\ SetPlayerState(StartSession(PlayerState))
         /\ currentIndex' = 0
         /\ prevIndex' = -1
         /\ loops' = loops \cup
                {[session |-> nextSession, i |-> 0, elapsed |-> Rat(0, 1)]}
         /\ timerQueue' = Append(timerQueue, nextSession)
         /\ UNCHANGED <<inputVars, bgmVars, currentVideoIndex, menuVars, frameVars,
                        exportVars>>

\* the stopAll call of the PAUSE button
StopAllHandler ==
    /\ SetPlayerState(stopAll(PlayerState))
    /\ UNCHANGED <<inputVars, bgmVars, currentIndex, prevIndex, currentVideoIndex,
                   menuVars, loopVars, frameVars, exportVars>>

\* the PLAY button without its `disabled` attribute
PlayButtonNeverDisabled == TRUE
\* <button onClick={isPlaying ? stopAll : playAll} disabled={isExporting}>
PlayButtonEnabled == ~isExporting
\* {!isPlaying && !isExporting && <div onClick={playAll} ...>}
OverlayShown == ~isPlaying /\ ~isExporting
\* the export button without its `disabled` attribute
ExportButtonNeverDisabled == TRUE
\* <button onClick={exportToMp4} disabled={isExporting || isPlaying}>
ExportButtonEnabled == ~(isExporting \/ isPlaying)

ClickPlayButton ==
    /\ mounted
    /\ variant = NewPlayer
    /\ PlayButtonEnabled
    /\ IF isPlaying THEN StopAllHandler ELSE playAll

ClickOverlay ==
    /\ mounted
    /\ variant = NewPlayer
    /\ OverlayShown
    /\ playAll

\* playAll resumed by the timer of scene l.i: pause that scene's video, then
\* the next iteration up to its await, or the end of the loop.  All the
\* timers of a mounted player have the delay sceneDuration * 1000, so they
\* fire in the order in which they were set.  Once the Player is unmounted
\* the loop still runs (nothing clears audioContextRef), its state setters
\* do nothing and videoRefs.current[i] is null.
PlayTimer(l) ==
    LET paused == IF isImage[l.i] THEN videoPlaying ELSE videoPlaying \ {l.i}
        next == l.i + 1
    IN /\ variant = NewPlayer
       /\ l \in loops
       /\ timerQueue # <<>>
       /\ Head(timerQueue) = l.session
       /\ IF next < sceneCount /\ audioContextRef # 0
          THEN /\ IF mounted
                  THEN /\ prevIndex' = next - 1
                       /\ currentIndex' = next
                       /\ videoPlaying' =
                            IF isImage[next] THEN paused ELSE paused \cup {next}
                  ELSE UNCHANGED <<prevIndex, currentIndex, videoPlaying>>
               /\ loops' = (loops \ {l}) \cup
                    {[l EXCEPT !.i = next, !.elapsed = RatAdd(@, sceneDuration)]}
               /\ timerQueue' = Append(Tail(timerQueue), l.session)
               /\ UNCHANGED isPlaying
          ELSE /\ IF mounted
                  THEN isPlaying' = FALSE /\ videoPlaying' = paused
                  ELSE UNCHANGED <<isPlaying, videoPlaying>>
               /\ loops' = loops \ {l}
               /\ timerQueue' = Tail(timerQueue)
               /\ UNCHANGED <<prevIndex, currentIndex>>
       /\ UNCHANGED <<inputVars, bgmVars, currentVideoIndex, menuVars, audioVars,
                      frameVars, exportVars>>

\* the narration of session s plays to its end
NarrationEnds(s) ==
    /\ <<"narration", s>> \in running
    /\ running' = running \ {<<"narration", s>>}
    /\ endedPending' = IF variant = OldPlayer THEN endedPending \cup {s}
                       ELSE endedPending
    /\ UNCHANGED <<inputVars, bgmVars, uiVars, menuVars, audioContextRef,
                   narrationSourceRef, bgmSourceRef, nextSession, raised, loopVars,
                   frameVars, exportVars>>

\* --------------------------------------------------- part_000: playback
\* playAudio
playAudio(st) ==
    IF audioBuffer = "null"
    THEN st
    ELSE [st EXCEPT
            !.audioContextRef = 1,
            !.running = @ \cup StartedSources(st.nextSession),
            !.bgmSourceRef = IF bgmBuffer = "buffer" THEN st.nextSession ELSE @,
            !.narrationSourceRef = st.nextSession,
            !.nextSession = @ + 1]

\* togglePlay
togglePlay(st) ==
    IF st.isPlaying
    THEN [stopAudio(st) EXCEPT !.videoPlaying = {}, !.isPlaying = FALSE]
    ELSE [playAudio(st) EXCEPT !.videoPlaying = {currentVideoIndex},
                               !.isPlaying = TRUE]

TogglePlayHandler ==
    /\ (~isPlaying /\ audioBuffer = "buffer" => nextSession <= MaxSessions)
    /\ SetPlayerState(togglePlay(PlayerState))
    /\ UNCHANGED <<inputVars, bgmVars, currentIndex, prevIndex, currentVideoIndex,
                   menuVars, loopVars, frameVars, exportVars>>

\* <button onClick={togglePlay} disabled={isBgmLoading || isExporting}>
OldPlayButtonEnabled == ~(isBgmLoading \/ isExporting)
\* {!isPlaying && !isExporting && <div onClick={togglePlay} ...>}
OldOverlayShown == ~isPlaying /\ ~isExporting

OldClickPlayButton ==
    /\ mounted
    /\ variant = OldPlayer
    /\ OldPlayButtonEnabled
    /\ TogglePlayHandler

OldClickOverlay ==
    /\ mounted
    /\ variant = OldPlayer
    /\ OldOverlayShown
    /\ TogglePlayHandler

\* narrSource.onended of session s; after the unmount its setters do
\* nothing, videoRef.current is null and the cleanup has cleared bgmSourceRef
OnEnded(s) ==
    /\ variant = OldPlayer
    /\ s \in endedPending
    /\ endedPending' = endedPending \ {s}
    /\ IF mounted
       THEN /\ isPlaying' = FALSE
            /\ videoPlaying' = {}
            /\ running' = SourceStopped(PlayerState, "bgm", bgmSourceRef)
            /\ currentVideoIndex' = 0
       ELSE UNCHANGED <<isPlaying, videoPlaying, running, currentVideoIndex>>
    /\ UNCHANGED <<inputVars, bgmVars, currentIndex, prevIndex, menuVars,
                   audioContextRef, narrationSourceRef, bgmSourceRef, nextSession,
                   raised, loopVars, frameVars, exportVars>>

\* the scene <video> plays to its end: handleVideoEnded, then the effect on
\* [currentVideoIndex, isPlaying] plays the element of the next URL
VideoEnded ==
    /\ mounted
    /\ variant = OldPlayer
    /\ videoPlaying # {}
    /\ IF sceneCount > 1
       THEN /\ currentVideoIndex' = (currentVideoIndex + 1) % sceneCount
            /\ videoPlaying' = IF isPlaying THEN {(currentVideoIndex + 1) % sceneCount}
                               ELSE {}
       ELSE UNCHANGED <<currentVideoIndex, videoPlaying>>
    /\ UNCHANGED <<inputVars, bgmVars, isPlaying, currentIndex, prevIndex, menuVars,
                   audioVars, loopVars, frameVars, exportVars>>

\* ------------------------------------------------------------- onReset
\* The NEW button: resetApp leaves AppState.COMPLETED and the parent stops
\* rendering the Player.  The scene elements leave the document and stop
\* playing.  part_000's mount effect returns a cleanup, stopAudio() and
\* audioContextRef.current.close(), which silences every source of its one
\* context; Player.tsx's mount effect returns none.
onReset ==
    /\ mounted
    /\ ~isExporting
    /\ mounted' = FALSE
    /\ SetPlayerState(
          IF variant = OldPlayer
          THEN [stopAudio(PlayerState) EXCEPT !.running = {}, !.videoPlaying = {}]
          ELSE [PlayerState EXCEPT !.videoPlaying = {}])
    /\ UNCHANGED <<variant, audioBuffer, durNum, sceneCount, isImage, supported,
                   appVars, bgmVars, currentIndex, prevIndex, currentVideoIndex, menuVars,
                   loopVars, frameVars, exportVars>>

\* ---------------------------------------------------- Player.tsx: export
\* a catch that logs the error and shows nothing
CatchWithoutAlert(shown) ==
    /\ alerts' = shown
    /\ isExporting' = FALSE
    /\ exportPc' = "idle"
\* catch { console.error(...); alert(...) } finally { setIsExporting(false) },
\* the job having shown `shown` alerts so far
CatchFinally(shown) ==
    /\ alerts' = shown + 1
    /\ isExporting' = FALSE
    /\ exportPc' = "idle"

\* The capture-bound sources an export starts in its first synchronous run.
CaptureBgm == IF bgmBuffer = "buffer" THEN {"bgm"} ELSE {}
CaptureNarration == IF audioBuffer = "buffer" THEN {"narration"} ELSE {}
LogIf(c, e) == IF c THEN <<e>> ELSE <<>>

\* the frame loop's variables at the start of a job
ResetFrames ==
    /\ frame' = 0
    /\ currentScene' = 0
    /\ drawCount' = 0
    /\ drawn' = NoDraw

\* exportToMp4 up to its first await (the first asset's load).  With a
\* MIME type the runtime does not support `new MediaRecorder` throws: the
\* catch alerts and the finally clears isExporting in the same run.
exportToMp4 ==
    IF audioBuffer = "null" \/ sceneCount = 0
    THEN UNCHANGED vars
    ELSE /\ ResetFrames
         /\ exportCtx' = "open"
         /\ downloads' = 0
         /\ loaded' = 0
         /\ IF Vp9 \in supported
            THEN /\ isExporting' = TRUE
                 /\ recorder' = "recording"
                 /\ captureRunning' = CaptureBgm \cup {"narration"}
                 /\ exportLog' = LogIf(bgmBuffer = "buffer", "bgmSource.start")
                        \o <<"mediaRecorder.start", "narrSource.start">>
                 /\ alerts' = 0
                 /\ exportPc' = "load"
            ELSE /\ CatchFinally(0)
                 /\ recorder' = "none"
                 /\ captureRunning' = CaptureBgm
                 /\ exportLog' = LogIf(bgmBuffer = "buffer", "bgmSource.start")
                        \o <<"alert">>
         /\ UNCHANGED <<inputVars, bgmVars, uiVars, menuVars, audioVars, loopVars,
                        exportProgress>>

ClickExport ==
    /\ mounted
    /\ variant = NewPlayer
    /\ ExportButtonEnabled
    /\ exportToMp4

\* One iteration of the frame loop, from its head to the await of its timer.
RenderFrame(f) ==
    /\ frame' = f
    /\ currentScene' = IF newScene(f) # currentScene THEN newScene(f) ELSE currentScene
    /\ drawn' = [DrawFrame(f) EXCEPT !.scene = currentScene']
    /\ drawCount' = drawCount + 1

\* the recorder stopped with the export's audio context left open
StopWithoutClose ==
    /\ recorder' = "inactive"
    /\ UNCHANGED <<exportCtx, captureRunning>>
    /\ exportPc' = "awaitBlob"
\* The frame loop is over: mediaRecorder.stop(), audioCtx.close(), and the
\* await of the recorder's stop callback.
StopRecording ==
    /\ recorder' = "inactive"
    /\ exportCtx' = "closed"
    /\ captureRunning' = {}
    /\ exportPc' = "awaitBlob"

\* img.onload / video.onloadeddata of the asset awaited: the next asset, or
\* after the last one the first iteration of the frame loop
AssetLoaded ==
    /\ variant = NewPlayer
    /\ exportPc = "load"
    /\ loaded' = loaded + 1
    /\ IF loaded + 1 < sceneCount
       THEN UNCHANGED <<frameVars, recorder, exportCtx, captureRunning, exportPc>>
       ELSE IF 0 < totalFrames
            THEN /\ RenderFrame(0)
                 /\ exportPc' = "frames"
                 /\ UNCHANGED <<recorder, exportCtx, captureRunning>>
            ELSE /\ StopRecording
                 /\ UNCHANGED frameVars
    /\ UNCHANGED <<inputVars, bgmVars, uiVars, menuVars, audioVars, loopVars,
                   isExporting, exportProgress, exportLog, alerts, downloads>>

\* img.onerror / video.onerror of the asset awaited: the promise has only a
\* load callback, so it never settles and exportToMp4 never resumes
AssetFailed ==
    /\ variant = NewPlayer
    /\ exportPc = "load"
    /\ exportPc' = "stuck"
    /\ UNCHANGED <<inputVars, bgmVars, uiVars, menuVars, audioVars, loopVars,
                   frameVars, isExporting, exportProgress, loaded, recorder,
                   captureRunning, exportCtx, exportLog, alerts, downloads>>

\* the timer of the frame loop (frameDelay): frame++, then the next
\* iteration, or the end of the loop
FrameTimer ==
    /\ variant = NewPlayer
    /\ exportPc = "frames"
    /\ IF frame + 1 < totalFrames
       THEN /\ RenderFrame(frame + 1)
            /\ UNCHANGED <<recorder, exportCtx, captureRunning, exportPc>>
       ELSE /\ frame' = frame + 1
            /\ StopRecording
            /\ UNCHANGED <<currentScene, drawCount, drawn>>
    /\ UNCHANGED <<inputVars, bgmVars, uiVars, menuVars, audioVars, loopVars,
                   isExporting, exportProgress, loaded, exportLog, alerts, downloads>>

\* mediaRecorder.onstop resolves the blob: the download, then the finally
RecorderStopped ==
    /\ exportPc = "awaitBlob"
    /\ downloads' = downloads + 1
    /\ isExporting' = FALSE
    /\ exportPc' = "idle"
    /\ UNCHANGED <<inputVars, bgmVars, uiVars, menuVars, audioVars, loopVars, frameVars,
                   exportProgress, loaded, recorder, captureRunning, exportCtx,
                   exportLog, alerts>>

\* ------------------------------------------------------ part_000: export
\* <button onClick={() => setIsExportMenuOpen(!isExportMenuOpen)}
\*         disabled={isExporting}>
ToggleExportMenu ==
    /\ mounted
    /\ variant = OldPlayer
    /\ ~isExporting
    /\ isExportMenuOpen' = ~isExportMenuOpen
    /\ UNCHANGED <<inputVars, bgmVars, uiVars, exportFormat, audioVars, loopVars,
                   frameVars, exportVars>>

\* the WebM and MP4 buttons of the open menu; MP4 is disabled when
\* MediaRecorder.isTypeSupported('video/mp4') is false
SetExportFormat(f) ==
    /\ mounted
    /\ variant = OldPlayer
    /\ isExportMenuOpen
    /\ f = "mp4" => Mp4 \in supported
    /\ exportFormat' = f
    /\ UNCHANGED <<inputVars, bgmVars, uiVars, isExportMenuOpen, audioVars, loopVars,
                   frameVars, exportVars>>

\* a recorder that is always given the WebM type
WebmOnly == Vp9
\* const mimeType = exportFormat === 'mp4' && isTypeSupported('video/mp4') ? ...
mimeType == IF exportFormat = "mp4" /\ Mp4 \in supported THEN Mp4 ELSE Vp9

\* handleExport up to its first await (the first scene's promise)
handleExport ==
    /\ isExportMenuOpen' = FALSE
    /\ exportProgress' = 0
    /\ SetPlayerState(IF isPlaying THEN togglePlay(PlayerState) ELSE PlayerState)
    /\ ResetFrames
    /\ exportCtx' = "open"
    /\ captureRunning' = CaptureNarration \cup CaptureBgm
    /\ downloads' = 0
    /\ loaded' = 0
    /\ IF mimeType \in supported
       THEN /\ isExporting' = TRUE
            /\ recorder' = "recording"
            /\ exportLog' = LogIf(isPlaying, "togglePlay")
                   \o LogIf(audioBuffer = "buffer", "source.start")
                   \o LogIf(bgmBuffer = "buffer", "bgmSource.start")
                   \o <<"recorder.start">>
            /\ alerts' = 0
            /\ exportPc' = "load"
       ELSE /\ CatchFinally(0)
            /\ recorder' = "none"
            /\ exportLog' = LogIf(isPlaying, "togglePlay")
                   \o LogIf(audioBuffer = "buffer", "source.start")
                   \o LogIf(bgmBuffer = "buffer", "bgmSource.start")
                   \o <<"alert">>
    /\ UNCHANGED <<inputVars, bgmVars, currentIndex, prevIndex, currentVideoIndex,
                   exportFormat, loopVars>>

\* the "download start" button of the open menu
OldClickExport ==
    /\ mounted
    /\ variant = OldPlayer
    /\ isExportMenuOpen
    /\ handleExport

\* hiddenVideo.onloadeddata: the clip plays and drawFrame draws it
HiddenVideoLoaded ==
    /\ variant = OldPlayer
    /\ exportPc = "load"
    /\ exportPc' = "playing"
    /\ UNCHANGED <<inputVars, bgmVars, uiVars, menuVars, audioVars, loopVars, frameVars,
                   isExporting, exportProgress, loaded, recorder, captureRunning,
                   exportCtx, exportLog, alerts, downloads>>

\* hiddenVideo.onended: the scene's promise resolves, the progress is set,
\* then the next scene's promise, or recorder.stop() and offlineCtx.close()
HiddenVideoEnded ==
    /\ variant = OldPlayer
    /\ exportPc = "playing"
    /\ loaded' = loaded + 1
    /\ exportProgress' = (((loaded + 1) * 100 * 2) \div sceneCount + 1) \div 2
    /\ IF loaded + 1 < sceneCount
       THEN /\ exportPc' = "load"
            /\ UNCHANGED <<recorder, exportCtx, captureRunning>>
       ELSE StopRecording
    /\ UNCHANGED <<inputVars, bgmVars, uiVars, menuVars, audioVars, loopVars, frameVars,
                   isExporting, exportLog, alerts, downloads>>

\* hiddenVideo.onerror: the promise rejects, the catch alerts, the finally
\* clears isExporting
HiddenVideoError ==
    /\ variant = OldPlayer
    /\ exportPc \in {"load", "playing"}
    /\ CatchFinally(alerts)
    /\ UNCHANGED <<inputVars, bgmVars, uiVars, menuVars, audioVars, loopVars, frameVars,
                   exportProgress, loaded, recorder, captureRunning, exportCtx,
                   exportLog, downloads>>

\* ------------------------------------------------------------------ Next
Next ==
    \/ BgmLoaded
    \/ BgmFailed
    \/ ClickPlayButton
    \/ ClickOverlay
    \/ \E l \in loops : PlayTimer(l)
    \/ \E s \in 1 .. MaxSessions : NarrationEnds(s)
    \/ ClickExport
    \/ AssetLoaded
    \/ AssetFailed
    \/ FrameTimer
    \/ RecorderStopped
    \/ OldClickPlayButton
    \/ OldClickOverlay
    \/ \E s \in 1 .. MaxSessions : OnEnded(s)
    \/ VideoEnded
    \/ ToggleExportMenu
    \/ \E f \in {"webm", "mp4"} : SetExportFormat(f)
    \/ OldClickExport
    \/ HiddenVideoLoaded
    \/ HiddenVideoEnded
    \/ HiddenVideoError
    \/ onReset

Spec == Init /\ [][Next]_vars

\* What the event loop guarantees: a timer that was set fires, a source
\* that plays reaches the end of its buffer, an event that was queued is
\* dispatched.  Nothing makes the user click.
PlaybackFairness ==
    /\ WF_vars(\E l \in loops : PlayTimer(l))
    /\ \A s \in 1 .. MaxSessions :
          WF_vars(NarrationEnds(s)) /\ WF_vars(OnEnded(s))

SpecLive == Spec /\ PlaybackFairness

\* The events an export job waits for are delivered: an asset awaited
\* loads or fails, the frame timer fires, a clip of part_000 loads, ends
\* or fails, and the recorder delivers its stop event.
ExportFairness ==
    /\ WF_vars(AssetLoaded \/ AssetFailed)
    /\ WF_vars(FrameTimer)
    /\ WF_vars(HiddenVideoLoaded \/ HiddenVideoEnded \/ HiddenVideoError)
    /\ WF_vars(RecorderStopped)

SpecExport == Spec /\ ExportFairness

\* --------------------------------------------- the frame loop on its own
\* Player.tsx, an export that waits for its last asset: the state reached
\* by BgmLoaded, ClickExport and sceneCount - 1 loads, for narrations and
\* scene counts beyond those of Init.
InitFrames ==
    /\ variant = NewPlayer
    /\ audioBuffer = "buffer"
    /\ durNum \in 1 .. (MaxSeconds * DurDen)
    /\ sceneCount \in 1 .. MaxFrameScenes
    /\ isImage = [i \in 0 .. (sceneCount - 1) |-> FALSE]
    /\ supported = {Vp9}
    /\ mounted = TRUE
    /\ bgmBuffer = "buffer"
    /\ isBgmLoading = FALSE
    /\ isPlaying = FALSE
    /\ currentIndex = 0
    /\ prevIndex = -1
    /\ currentVideoIndex = 0
    /\ isExporting = TRUE
    /\ isExportMenuOpen = FALSE
    /\ exportProgress = 0
    /\ exportFormat = "webm"
    /\ audioContextRef = 0
    /\ narrationSourceRef = 0
    /\ bgmSourceRef = 0
    /\ running = {}
    /\ endedPending = {}
    /\ nextSession = 1
    /\ loops = {}
    /\ timerQueue = <<>>
    /\ videoPlaying = {}
    /\ exportPc = "load"
    /\ loaded = sceneCount - 1
    /\ frame = 0
    /\ currentScene = 0
    /\ drawCount = 0
    /\ drawn = NoDraw
    /\ recorder = "recording"
    /\ captureRunning = {"bgm", "narration"}
    /\ exportCtx = "open"
    /\ exportLog = <<"bgmSource.start", "mediaRecorder.start", "narrSource.start">>
    /\ alerts = 0
    /\ downloads = 0
    /\ raised = FALSE
    /\ AppConstructed

NextFrames ==
    \/ AssetLoaded
    \/ FrameTimer
    \/ RecorderStopped

SpecFrames == InitFrames /\ [][NextFrames]_vars

\* ------------------------------------------ the scene timers on their own
\* Player.tsx, mounted and idle with the background track loaded, for
\* narrations and scene counts beyond those of Init.
InitTimeline ==
    /\ variant = NewPlayer
    /\ audioBuffer = "buffer"
    /\ durNum \in 1 .. (MaxSeconds * DurDen)
    /\ sceneCount \in 1 .. MaxFrameScenes
    /\ isImage = [i \in 0 .. (sceneCount - 1) |-> FALSE]
    /\ supported = {Vp9}
    /\ mounted = TRUE
    /\ bgmBuffer = "buffer"
    /\ isBgmLoading = FALSE
    /\ isPlaying = FALSE
    /\ currentIndex = 0
    /\ prevIndex = -1
    /\ currentVideoIndex = 0
    /\ isExporting = FALSE
    /\ isExportMenuOpen = FALSE
    /\ exportProgress = 0
    /\ exportFormat = "webm"
    /\ audioContextRef = 0
    /\ narrationSourceRef = 0
    /\ bgmSourceRef = 0
    /\ running = {}
    /\ endedPending = {}
    /\ nextSession = MaxSessions
    /\ loops = {}
    /\ timerQueue = <<>>
    /\ videoPlaying = {}
    /\ exportPc = "idle"
    /\ loaded = 0
    /\ frame = 0
    /\ currentScene = 0
    /\ drawCount = 0
    /\ drawn = NoDraw
    /\ recorder = "none"
    /\ captureRunning = {}
    /\ exportCtx = "none"
    /\ exportLog = <<>>
    /\ alerts = 0
    /\ downloads = 0
    /\ raised = FALSE
    /\ AppConstructed

NextTimeline ==
    \/ ClickOverlay
    \/ \E l \in loops : PlayTimer(l)

SpecTimeline == InitTimeline /\ [][NextTimeline]_vars

\* -------------------------------------- play, pause and the scene timers
\* Player.tsx, mounted and idle with the narration and the background track
\* loaded and up to MaxFrameScenes clips: the PLAY / PAUSE button, the
\* overlay and the timers of the playAll loops.
InitScenes ==
    /\ variant = NewPlayer
    /\ audioBuffer = "buffer"
    /\ durNum = PlayerDur
    /\ sceneCount \in 1 .. MaxFrameScenes
    /\ isImage \in ImageLayouts(sceneCount)
    /\ supported = {Vp9}
    /\ mounted = TRUE
    /\ bgmBuffer = "buffer"
    /\ isBgmLoading = FALSE
    /\ isPlaying = FALSE
    /\ currentIndex = 0
    /\ prevIndex = -1
    /\ currentVideoIndex = 0
    /\ isExporting = FALSE
    /\ isExportMenuOpen = FALSE
    /\ exportProgress = 0
    /\ exportFormat = "webm"
    /\ audioContextRef = 0
    /\ narrationSourceRef = 0
    /\ bgmSourceRef = 0
    /\ running = {}
    /\ endedPending = {}
    /\ nextSession = 1
    /\ loops = {}
    /\ timerQueue = <<>>
    /\ videoPlaying = {}
    /\ exportPc = "idle"
    /\ loaded = 0
    /\ frame = 0
    /\ currentScene = 0
    /\ drawCount = 0
    /\ drawn = NoDraw
    /\ recorder = "none"
    /\ captureRunning = {}
    /\ exportCtx = "none"
    /\ exportLog = <<>>
    /\ alerts = 0
    /\ downloads = 0
    /\ raised = FALSE
    /\ AppConstructed

NextScenes ==
    \/ ClickPlayButton
    \/ ClickOverlay
    \/ \E l \in loops : PlayTimer(l)

SpecScenes == InitScenes /\ [][NextScenes]_vars

\* ------------------------------------------------------ the App's actions
\* The persist effect, run after the render that follows a step: st, tp and
\* as are the state, topic and assets the step leaves, sto the entry after
\* the step's own localStorage calls, prev what the render before had.
Persist(prev, st, tp, as, sto) ==
    IF <<st, tp, as>> # prev /\ st \notin {"IDLE", "ERROR"}
    THEN [present |-> TRUE, state |-> st, topic |-> tp,
          assets |-> [as EXCEPT !.audioBuffer = "null"]]
    ELSE sto

\* A step of the App: the values it sets, then the render and its effect.
SetAppFrom(prev, st, tp, as, sto, pc, res, ps, i, acc, att, retry) ==
    /\ state' = st
    /\ topic' = tp
    /\ assets' = as
    /\ storage' = Persist(prev, st, tp, as, sto)
    /\ runPc' = pc
    /\ resumeAssets' = res
    /\ pipelineScenes' = ps
    /\ sceneI' = i
    /\ scenesWithVideo' = acc
    /\ attempts' = att
    /\ isRetry' = retry
    /\ UNCHANGED aistudio

SetApp(st, tp, as, sto, pc, res, ps, i, acc, att, retry) ==
    SetAppFrom(<<state, topic, assets>>, st, tp, as, sto, pc, res, ps, i, acc, att,
               retry)

playerVars == <<variant, audioBuffer, durNum, sceneCount, isImage, supported, mounted,
                bgmVars, uiVars, menuVars, audioVars, loopVars, frameVars, exportVars>>

\* scriptData.scenes.map(...): the saved URLs are paired with the scenes by
\* position.
BuildPipeline(scenes, res) ==
    [i \in 1 .. Len(scenes) |->
        LET saved == res.given /\ i <= Len(res.assets.videoUrls)
        IN [originalIndex |-> i - 1,
            narration |-> scenes[i],
            img |-> IF saved THEN "EXISTS" ELSE "",
            videoUrl |-> IF saved THEN res.assets.videoUrls[i] ELSE NoUrl]]

Urls(ps) == [i \in 1 .. Len(ps) |-> ps[i].videoUrl]
Narrations(ps) == [i \in 1 .. Len(ps) |-> ps[i].narration]

\* A catch block that reports the error inside the step that failed and
\* lets the run go on.
CatchAndGoOn(tp, as) ==
    SetApp("ERROR", tp, as, storage, runPc, resumeAssets, pipelineScenes, sceneI,
           scenesWithVideo, attempts, isRetry)

\* handleGenerate's catch block; the run is over.
Catch(tp, as) ==
    SetApp("ERROR", tp, as, storage, "none", NoResume, <<>>, 0, <<>>, 0, FALSE)

\* After the script is known: pipelineScenes, then the image requests.
StartImages(prev, tp, as, scenes, res) ==
    SetAppFrom(prev, "GENERATING_IMAGE", tp, as, storage, "image", NoResume,
               BuildPipeline(scenes, res), 0, <<>>, 0, FALSE)

\* handleGenerate with a topic that is not blank, up to its first await.
\* closure is the assets of the render whose callback runs, as the assets
\* state the step leaves, prev the state, topic and assets of that render.
handleGenerate(prev, currentTopic, res, closure, as) ==
    LET scriptData == IF res.given /\ res.assets.script.has
                      THEN res.assets.script ELSE closure.script
    IN IF ~scriptData.has
       THEN SetAppFrom(prev, "GENERATING_SCRIPT", currentTopic, as, storage, "script",
                       res, <<>>, 0, <<>>, 0, FALSE)
       ELSE StartImages(prev, currentTopic, as, scriptData.scenes, res)

\* The topic input, shown while IDLE.
SetTopic(t) ==
    /\ state = "IDLE"
    /\ t # topic
    /\ SetApp(state, t, assets, storage, runPc, resumeAssets, pipelineScenes, sceneI,
              scenesWithVideo, attempts, isRetry)
    /\ UNCHANGED playerVars

\* The generate button (IDLE, disabled while the topic is blank) and the
\* continue button (ERROR).
ClickGenerate ==
    /\ state \in {"IDLE", "ERROR"}
    /\ topic # ""
    /\ handleGenerate(<<state, topic, assets>>, topic, NoResume, assets, assets)
    /\ UNCHANGED playerVars

\* generateScript resolves with a script of n scenes.
ScriptGenerated(n) ==
    /\ runPc = "script"
    /\ LET scenes == [i \in 1 .. n |-> i - 1]
       IN StartImages(<<state, topic, assets>>, topic,
                      [assets EXCEPT !.script = [has |-> TRUE, scenes |-> scenes]],
                      scenes, resumeAssets)
    /\ UNCHANGED playerVars

ScriptFails ==
    /\ runPc = "script"
    /\ Catch(topic, assets)
    /\ UNCHANGED playerVars

\* The video loop from i on, up to its next await or to its end: scenes that
\* have a clip are pushed as they are.
RECURSIVE SkipDone(_, _, _)
SkipDone(ps, i, acc) ==
    IF i <= Len(ps) /\ ps[i].videoUrl # NoUrl
    THEN SkipDone(ps, i + 1, Append(acc, ps[i]))
    ELSE [i |-> i, acc |-> acc]

ContinueVideo(ps, i, acc, as) ==
    LET r == SkipDone(ps, i, acc)
    IN IF r.i <= Len(ps)
       THEN SetApp("GENERATING_VIDEO", topic, as, storage, "video", NoResume, ps, r.i,
                   r.acc, 1, FALSE)
       ELSE IF r.acc = <<>>
            THEN Catch(topic, as)
            ELSE SetApp("GENERATING_AUDIO", topic, [as EXCEPT !.videoUrls = Urls(r.acc)],
                        storage, "audio", NoResume, r.acc, 0, <<>>, 0, FALSE)

\* Promise.all over the scenes: the image requests of the scenes in ok
\* resolve, the others reject.  checkVeoKey, awaited before the video loop,
\* catches the rejection of openSelectKey and sets no state.
ImageResults(ok) ==
    [i \in 1 .. Len(pipelineScenes) |->
        [pipelineScenes[i] EXCEPT
            !.img = IF pipelineScenes[i].videoUrl # NoUrl THEN "SKIPPED"
                    ELSE IF i \in ok THEN "image" ELSE "null"]]

\* An image stage that gives up as soon as one request rejects.
ImagesAllOrNothing(ok) ==
    /\ runPc = "image"
    /\ ok \subseteq {i \in 1 .. Len(pipelineScenes) : pipelineScenes[i].videoUrl = NoUrl}
    /\ LET scenesWithImages == SelectSeq(ImageResults(ok), LAMBDA s : s.img # "null")
       IN IF Len(scenesWithImages) < Len(pipelineScenes)
          THEN Catch(topic, assets)
          ELSE ContinueVideo(scenesWithImages, 1, <<>>, assets)
    /\ UNCHANGED playerVars

ImagesSettled(ok) ==
    /\ runPc = "image"
    /\ ok \subseteq {i \in 1 .. Len(pipelineScenes) : pipelineScenes[i].videoUrl = NoUrl}
    /\ LET scenesWithImages == SelectSeq(ImageResults(ok), LAMBDA s : s.img # "null")
       IN IF scenesWithImages = <<>>
          THEN Catch(topic, assets)
          ELSE ContinueVideo(scenesWithImages, 1, <<>>, assets)
    /\ UNCHANGED playerVars

\* The generateVideos request of the scene at sceneI ends in a clip.
AttemptSucceeds ==
    /\ runPc = "video"
    /\ LET scene == pipelineScenes[sceneI]
           acc == Append(scenesWithVideo, [scene EXCEPT !.videoUrl = scene.narration])
       IN ContinueVideo(pipelineScenes, sceneI + 1, acc,
                        [assets EXCEPT !.videoUrls = Urls(acc)])
    /\ UNCHANGED playerVars

\* A catch block that asks again after every not-found error.
RetriesAgain(notFound, retry, keyThrows) ==
    notFound /\ aistudio /\ ~keyThrows

\* attemptGeneration's catch block: whether it asks again.
Retries(notFound, retry, keyThrows) ==
    notFound /\ ~retry /\ aistudio /\ ~keyThrows

\* The request fails, with a not-found error or another; keyThrows: the
\* openSelectKey call of the catch block rejects.
AttemptFails(notFound, keyThrows) ==
    /\ runPc = "video"
    /\ IF Retries(notFound, isRetry, keyThrows)
       THEN SetApp(state, topic, assets, storage, runPc, resumeAssets, pipelineScenes,
                   sceneI, scenesWithVideo, attempts + 1, TRUE)
       ELSE ContinueVideo(pipelineScenes, sceneI + 1, scenesWithVideo, assets)
    /\ UNCHANGED playerVars

AudioGenerated ==
    /\ runPc = "audio"
    /\ SetApp("COMPLETED", topic,
              [script |-> [has |-> TRUE, scenes |-> Narrations(pipelineScenes)],
               videoUrls |-> Urls(pipelineScenes), audioBuffer |-> "buffer"],
              Absent, "none", NoResume, <<>>, 0, <<>>, 0, FALSE)
    /\ UNCHANGED playerVars

AudioFails ==
    /\ runPc = "audio"
    /\ Catch(topic, assets)
    /\ UNCHANGED playerVars

\* The buttons that call resetApp: "new" of the error panel and the
\* Player's onReset.
resetApp ==
    /\ state \in {"ERROR", "COMPLETED"}
    /\ SetApp("IDLE", "", NoAssets, Absent, runPc, resumeAssets, pipelineScenes, sceneI,
              scenesWithVideo, attempts, isRetry)
    /\ UNCHANGED playerVars

\* The page is loaded again: a run in progress is gone, the App is mounted
\* anew and its restore effect reads the stored session.
Reload ==
    /\ LET first == <<"IDLE", "", NoAssets>>
       IN IF storage.present /\ storage.state # "COMPLETED"
          THEN IF storage.topic = ""
               THEN SetAppFrom(first, "IDLE", "", storage.assets, storage, "none",
                               NoResume, <<>>, 0, <<>>, 0, FALSE)
               ELSE handleGenerate(first, storage.topic,
                                   [given |-> TRUE, assets |-> storage.assets],
                                   NoAssets, storage.assets)
          ELSE SetAppFrom(first, "IDLE", "", NoAssets, storage, "none", NoResume, <<>>,
                          0, <<>>, 0, FALSE)
    /\ UNCHANGED playerVars

\* The Player's variables while the App is checked on its own: no Player
\* is followed.
PlayerUnmounted ==
    /\ variant = NewPlayer
    /\ audioBuffer = "null"
    /\ durNum = PlayerDur
    /\ sceneCount = 1
    /\ isImage = [i \in 0 .. 0 |-> FALSE]
    /\ supported = {Vp9}
    /\ mounted = FALSE
    /\ bgmBuffer = "null"
    /\ isBgmLoading = TRUE
    /\ isPlaying = FALSE
    /\ currentIndex = 0
    /\ prevIndex = -1
    /\ currentVideoIndex = 0
    /\ isExporting = FALSE
    /\ isExportMenuOpen = FALSE
    /\ exportProgress = 0
    /\ exportFormat = "webm"
    /\ audioContextRef = 0
    /\ narrationSourceRef = 0
    /\ bgmSourceRef = 0
    /\ running = {}
    /\ endedPending = {}
    /\ nextSession = 1
    /\ loops = {}
    /\ timerQueue = <<>>
    /\ videoPlaying = {}
    /\ exportPc = "idle"
    /\ loaded = 0
    /\ frame = 0
    /\ currentScene = 0
    /\ drawCount = 0
    /\ drawn = NoDraw
    /\ recorder = "none"
    /\ captureRunning = {}
    /\ exportCtx = "none"
    /\ exportLog = <<>>
    /\ alerts = 0
    /\ downloads = 0
    /\ raised = FALSE

\* The topics typed: blank or not.
Topics == {"", "topic"}

\* The App on its own, in a browser with or without AI Studio.
InitApp ==
    /\ AppMounted
    /\ storage = Absent
    /\ aistudio \in BOOLEAN
    /\ PlayerUnmounted

NextApp ==
    \/ \E t \in Topics : SetTopic(t)
    \/ ClickGenerate
    \/ \E n \in 1 .. MaxAppScenes : ScriptGenerated(n)
    \/ ScriptFails
    \/ \E ok \in SUBSET (1 .. MaxAppScenes) : ImagesSettled(ok)
    \/ AttemptSucceeds
    \/ \E notFound \in BOOLEAN, keyThrows \in BOOLEAN : AttemptFails(notFound, keyThrows)
    \/ AudioGenerated
    \/ AudioFails
    \/ resetApp
    \/ Reload

SpecApp == InitApp /\ [][NextApp]_vars

\* ================================================================ claims
\* The speaker-bound sources that a step starts.
SpeakerStarted == running' \ running

\* C1: playback and export never run together.  isPlaying and isExporting
\* are never both true, and a step taken while isExporting is true starts
\* no speaker-bound source and leaves isPlaying false, whichever play
\* control the user reaches for.
C1_PlaybackExportExclusive ==
    /\ [](~(isPlaying /\ isExporting))
    /\ [][isExporting => (SpeakerStarted = {} /\ ~isPlaying')]_vars

\* an export in progress in a player that has played before, with the
\* narration present, so that a play control would start a session
C1_Witness ==
    /\ isExporting
    /\ audioBuffer = "buffer"
    /\ nextSession > 1
    /\ nextSession <= MaxSessions
    /\ exportPc \in {"load", "frames", "playing"}

\* The position of entry e in the log of an export's first synchronous run,
\* 0 when the log does not hold it.
LogIndex(e) ==
    IF \E k \in 1 .. Len(exportLog) : exportLog[k] = e
    THEN CHOOSE k \in 1 .. Len(exportLog) : exportLog[k] = e
    ELSE 0

\* C2: an export invoked during playback stops the playback first.  The
\* step of the export control taken with isPlaying true leaves isPlaying
\* false and no speaker-bound source running, has drawn no frame yet, and
\* has made the stop before it started the recorder.
C2_ExportStopsPlayback ==
    [][(isPlaying /\ (ClickExport \/ OldClickExport))
        => /\ ~isPlaying'
           /\ running' = {}
           /\ drawCount' = 0
           /\ recorder' = "recording" =>
                (0 < LogIndex("togglePlay")' /\
                 LogIndex("togglePlay")' < LogIndex("recorder.start")')]_vars

\* ceil(totalNarrationDuration * 30), the narration lasting durNum / DurDen s
ExpectedFrames == (durNum * 30 + DurDen - 1) \div DurDen
\* ceil(30 * totalDuration / sceneCount)
ExpectedFramesPerScene ==
    (durNum * 30 + DurDen * sceneCount - 1) \div (DurDen * sceneCount)
\* the export job of Player.tsx has left its frame loop
FrameLoopOver ==
    variant = NewPlayer /\ (exportPc = "awaitBlob" \/ downloads > 0)

\* C3: the frame loop draws exactly ceil(duration * 30) frames, numbered
\* from 0 in increasing order, each once.  Every draw of a job draws the
\* frame whose number is the count of the draws before it, whatever happens
\* between two draws, and when the loop is over that count is
\* ceil(duration * 30).
C3_FramesExactlyOnce ==
    /\ [](FrameLoopOver =>
            (drawCount = ExpectedFrames /\ drawn.frame = ExpectedFrames - 1))
    /\ [][drawCount' # drawCount =>
            IF drawCount' = 0
            THEN drawn' = NoDraw
            ELSE drawCount' = drawCount + 1 /\ drawn'.frame = drawCount]_vars

\* a finished loop over a narration whose duration * 30 is not a whole number
C3_Witness ==
    /\ FrameLoopOver
    /\ (durNum * 30) % DurDen # 0
    /\ drawCount > 1
    /\ drawn.frame = drawCount - 1

\* C4: the scene index resolved for a frame is
\* min(floor(f / framesPerScene), sceneCount - 1) with framesPerScene =
\* ceil(30 * duration / sceneCount), lies in 0 .. sceneCount - 1, and never
\* decreases from one frame to the next.
C4_SceneIndexMonotone ==
    /\ [](drawCount > 0 =>
            /\ drawn.scene \in 0 .. (sceneCount - 1)
            /\ drawn.scene =
                 (IF drawn.frame \div ExpectedFramesPerScene < sceneCount - 1
                  THEN drawn.frame \div ExpectedFramesPerScene
                  ELSE sceneCount - 1))
    /\ [][(drawCount > 0 /\ drawCount' = drawCount + 1) =>
            drawn'.scene >= drawn.scene]_vars

\* a frame of the last of several scenes, past the first frame of its scene
C4_Witness ==
    /\ variant = NewPlayer
    /\ sceneCount > 1
    /\ drawCount > 0
    /\ drawn.scene = sceneCount - 1
    /\ drawn.frameInScene > 0

\* twice the transition window min(30 * 0.7, framesPerScene / 2), in frames
TwiceTransitionFrames ==
    IF 42 <= ExpectedFramesPerScene THEN 42 ELSE ExpectedFramesPerScene

\* C6: the transition progress of every frame drawn is
\* min(frameInScene / transitionFrames, 1) with transitionFrames =
\* min(30 * 0.7, framesPerScene / 2): it lies in [0, 1] and is exactly 1
\* from frameInScene = transitionFrames on.
C6_TransitionProgressBounded ==
    drawCount > 0 =>
        /\ drawn.frameInScene = drawn.frame % ExpectedFramesPerScene
        /\ 0 <= drawn.progress.num
        /\ 0 < drawn.progress.den
        /\ drawn.progress.num <= drawn.progress.den
        /\ IF 2 * drawn.frameInScene >= TwiceTransitionFrames
           THEN drawn.progress = [num |-> 1, den |-> 1]
           ELSE drawn.progress.num * TwiceTransitionFrames
                    = 2 * drawn.frameInScene * drawn.progress.den

\* a frame at or past the transition window whose quotient exceeds 1
C6_Witness ==
    /\ variant = NewPlayer
    /\ drawCount > 0
    /\ 2 * drawn.frameInScene > TwiceTransitionFrames
    /\ drawn.progress = [num |-> 1, den |-> 1]

\* C7: at a scene boundary of an export with framesPerScene >= 2 the last
\* frame of scene k is drawn as scene k at progress 1, and the frame after
\* it as scene k + 1 at frameInScene 0 and progress 0.  For 2 scenes and a
\* narration of 10 s: 300 frames, 150 frames per scene, a transition window
\* of 21 frames, frame 149 scene 0 at progress 1, frame 150 scene 1 at
\* frameInScene 0 and progress 0.
C7_SceneBoundary ==
    /\ [](drawCount > 0 /\ ExpectedFramesPerScene >= 2 /\
          drawn.frame % ExpectedFramesPerScene = ExpectedFramesPerScene - 1 =>
            /\ drawn.scene = drawn.frame \div ExpectedFramesPerScene
            /\ drawn.progress = [num |-> 1, den |-> 1])
    /\ [][(drawCount > 0 /\ ExpectedFramesPerScene >= 2 /\
           drawn.frame % ExpectedFramesPerScene = ExpectedFramesPerScene - 1 /\
           drawCount' = drawCount + 1) =>
            /\ drawn'.scene = drawn.scene + 1
            /\ drawn'.frameInScene = 0
            /\ drawn'.progress = [num |-> 0, den |-> 1]]_vars
    /\ [](variant = NewPlayer /\ sceneCount = 2 /\ durNum = 10 * DurDen =>
            /\ totalFrames = 300
            /\ framesPerScene = 150
            /\ transitionFrames = [num |-> 21, den |-> 1]
            /\ (drawCount > 0 /\ drawn.frame = 149 =>
                    drawn.scene = 0 /\ drawn.progress = [num |-> 1, den |-> 1])
            /\ (drawCount > 0 /\ drawn.frame = 150 =>
                    /\ drawn.scene = 1
                    /\ drawn.frameInScene = 0
                    /\ drawn.progress = [num |-> 0, den |-> 1]))

\* frame 150 of the export of 2 scenes over a narration of 10 s
C7_Witness ==
    /\ variant = NewPlayer
    /\ sceneCount = 2
    /\ durNum = 10 * DurDen
    /\ drawCount = 151
    /\ drawn.frame = 150
    /\ drawn.scene = 1

\* the position at which the timer of loop l fires: the end of its window
WindowEnd(l) == RatAdd(l.elapsed, sceneDuration)

\* C5: the scene windows [i * D / n, (i + 1) * D / n) of a narration of D
\* seconds over n scenes follow one another without gap or overlap and
\* cover [0, D).  The scene loop shows scene i from i * D / n until its
\* timer fires at (i + 1) * D / n, where the next window starts; every
\* window ends within D and only that of scene n - 1 ends at D, so that
\* position D resolves to scene n - 1 with its window wholly elapsed, and
\* n - 1 is the index shown when the loop is over.
C5_SceneWindowsCover ==
    /\ [](\A l \in loops :
            /\ l.i \in 0 .. (sceneCount - 1)
            /\ l.elapsed.num * DurDen * sceneCount
                    = l.i * durNum * l.elapsed.den
            /\ WindowEnd(l).num * DurDen * sceneCount
                    = (l.i + 1) * durNum * WindowEnd(l).den
            /\ WindowEnd(l).num * DurDen <= durNum * WindowEnd(l).den
            /\ (l.i = sceneCount - 1) <=>
                    (WindowEnd(l).num * DurDen = durNum * WindowEnd(l).den))
    /\ [][\A l \in loops :
            \A m \in loops' :
                (m.session = l.session /\ m # l) =>
                    (m.i = l.i + 1 /\ m.elapsed = WindowEnd(l))]_vars
    /\ [][\A l \in loops :
            (\A m \in loops' : m.session # l.session) =>
                (l.i = sceneCount - 1 \/ audioContextRef = 0)]_vars
    /\ [][(loops # {} /\ loops' = {} /\ audioContextRef # 0) =>
            currentIndex' = sceneCount - 1]_vars

\* the loop of an uninterrupted session in the last of three or more scenes,
\* the windows' bounds not whole numbers of seconds
C5_Witness ==
    /\ variant = NewPlayer
    /\ sceneCount >= 3
    /\ durNum % (DurDen * sceneCount) # 0
    /\ \E l \in loops :
          /\ l.i = sceneCount - 1
          /\ l.session = audioContextRef
          /\ l.elapsed.den > 1
          /\ WindowEnd(l) = duration

\* C8: in a playback or export session that has a background buffer the
\* narration source and the background source are started in the same
\* synchronous step.  A step that starts the one starts the other, on the
\* speaker destination and on the capture destination alike.
C8_BusesStartedTogether ==
    /\ [][bgmBuffer = "buffer" =>
            \A s \in 1 .. MaxSessions :
                (<<"narration", s>> \in SpeakerStarted)
                    <=> (<<"bgm", s>> \in SpeakerStarted)]_vars
    /\ [][(bgmBuffer = "buffer" /\ audioBuffer = "buffer" /\
           (ClickExport \/ OldClickExport)) =>
            ("narration" \in captureRunning' <=> "bgm" \in captureRunning')]_vars

\* The stop operation as the player's controls and cleanups call it:
\* stopAll in Player.tsx; in part_000 stopAudio, from the stop branch of
\* togglePlay while playing.
StopOnce(st) ==
    IF variant = NewPlayer THEN stopAll(st)
    ELSE IF st.isPlaying THEN togglePlay(st) ELSE stopAudio(st)

\* C9: stop is idempotent.  In every reachable state (never played,
\* playing, already stopped) a stop does not raise and leaves isPlaying
\* false and no source running, and a second stop right after it changes
\* nothing and does not raise.
C9_StopIdempotent ==
    /\ ~StopOnce(PlayerState).raised
    /\ ~StopOnce(PlayerState).isPlaying
    /\ StopOnce(PlayerState).running = {}
    /\ StopOnce(StopOnce(PlayerState)) = StopOnce(PlayerState)
    /\ (variant = OldPlayer =>
            stopAudio(stopAudio(PlayerState)) = stopAudio(PlayerState))

\* the play controls of the two players
PlayControl ==
    ClickPlayButton \/ ClickOverlay \/ OldClickPlayButton \/ OldClickOverlay

\* C10: without a narration buffer play is a no-op.  A play control used
\* while not playing, the narration absent, starts no source and no scene
\* video and leaves isPlaying false.
C10_PlayWithoutNarrationNoOp ==
    [][(audioBuffer = "null" /\ ~isPlaying /\ PlayControl) =>
        /\ running' = running
        /\ nextSession' = nextSession
        /\ videoPlaying' = videoPlaying
        /\ ~isPlaying']_vars

\* the background track failed to load: loadBgm is over, the buffer is null
BgmLoadFailed == bgmBuffer = "null" /\ ~isBgmLoading
\* the runtime supports the MIME type the export asks the recorder for
RecorderFormatSupported ==
    IF variant = NewPlayer THEN Vp9 \in supported ELSE mimeType \in supported

\* C11: after the background track failed to load, playback and export go
\* on with the narration alone.  The failure itself shows no alert and
\* raises nothing, and the play button is enabled whenever no export runs;
\* a play started then starts the narration source and no background
\* source and sets isPlaying; an export started then starts the narration
\* on the capture destination and no background source, and alerts only
\* where the recorder's format is unsupported, as it does with the track
\* loaded.
C11_BackgroundFailureTolerated ==
    /\ []((BgmLoadFailed /\ ~isExporting) =>
            (IF variant = NewPlayer THEN PlayButtonEnabled
             ELSE OldPlayButtonEnabled))
    /\ [][(isBgmLoading /\ ~isBgmLoading' /\ bgmBuffer' = "null") =>
            (alerts' = alerts /\ ~raised' /\ isPlaying' = isPlaying
             /\ isExporting' = isExporting)]_vars
    /\ [][(BgmLoadFailed /\ audioBuffer = "buffer" /\ ~isPlaying /\ PlayControl) =>
            /\ SpeakerStarted = {<<"narration", nextSession>>}
            /\ isPlaying'
            /\ ~raised'
            /\ alerts' = alerts]_vars
    /\ [][(BgmLoadFailed /\ audioBuffer = "buffer" /\
           (ClickExport \/ OldClickExport)) =>
            /\ "bgm" \notin captureRunning'
            /\ ~raised'
            /\ IF RecorderFormatSupported
               THEN /\ captureRunning' = {"narration"}
                    /\ isExporting'
                    /\ recorder' = "recording"
                    /\ alerts' = 0
               ELSE ~isExporting' /\ alerts' = 1]_vars

\* a narration-only export that reached its download after the background
\* track had failed to load, in a player that had played narration-only
C11_Witness ==
    /\ BgmLoadFailed
    /\ downloads = 1
    /\ alerts = 0
    /\ nextSession > 1
    /\ \A s \in 1 .. MaxSessions : <<"bgm", s>> \notin running

\* the active-scene index the player shows
ActiveIndex == IF variant = NewPlayer THEN currentIndex ELSE currentVideoIndex
\* the narration source of the current session is playing
NarrationPlaying ==
    narrationSourceRef # 0 /\ <<"narration", narrationSourceRef>> \in running

\* C12: during live playback the active-scene index never decreases.  A
\* step within one session, its narration playing before and after the
\* step, leaves the index where it was or moves it up; the index goes back
\* to 0 only with the reset at the narration's end or with a new play.
C12_ActiveIndexMonotone ==
    [][(isPlaying /\ NarrationPlaying /\ NarrationPlaying' /\
        narrationSourceRef' = narrationSourceRef) =>
            ActiveIndex' >= ActiveIndex]_vars

\* Player.tsx: the current session came to its natural end: nobody stopped
\* it, its scene loop is over and its narration has played to the end
NewCompleted ==
    /\ variant = NewPlayer
    /\ audioContextRef # 0
    /\ \A l \in loops : l.session # audioContextRef
    /\ <<"narration", audioContextRef>> \notin running

\* C13: the natural end of the narration resets the player: the
\* active-scene index is 0, isPlaying is false, and neither the narration
\* source nor the looping background source of the session goes on
\* playing.  In Player.tsx that is the state after the session's loop and
\* narration are over; in part_000 the state the onended handler of the
\* current session leaves.
C13_NaturalEndResets ==
    /\ [](NewCompleted =>
            /\ currentIndex = 0
            /\ ~isPlaying
            /\ <<"bgm", audioContextRef>> \notin running)
    /\ [][\A s \in 1 .. MaxSessions :
            (OnEnded(s) /\ s = narrationSourceRef) =>
                /\ currentVideoIndex' = 0
                /\ ~isPlaying'
                /\ <<"narration", s>> \notin running'
                /\ <<"bgm", s>> \notin running']_vars

\* C14: the narration-ended notification of a session arises only from the
\* natural end of its narration, never from a manual stop, and the ended
\* callback of an earlier session neither clears isPlaying nor stops a
\* source of the session that is current when it runs.
C14_EndedOnlyOnNaturalEnd ==
    /\ [][\A s \in endedPending' \ endedPending : NarrationEnds(s)]_vars
    /\ [][\A s \in 1 .. MaxSessions :
            (OnEnded(s) /\ narrationSourceRef > s) =>
                (isPlaying' = isPlaying /\ running' = running)]_vars

\* the speaker-bound sources of one kind that are playing
RunningOf(kind) == {x \in running : x[1] = kind}

\* C15: a play stops the session before it, so at most one narration
\* source and at most one background source play on the speakers at any
\* time, and each of them is the one its ref holds, through which a stop
\* reaches it.
C15_OneSessionAtATime ==
    /\ Cardinality(RunningOf("narration")) <= 1
    /\ Cardinality(RunningOf("bgm")) <= 1
    /\ \A x \in RunningOf("narration") : x[2] = narrationSourceRef
    /\ \A x \in RunningOf("bgm") : x[2] = bgmSourceRef

\* a step of the user that stops the playback: the play control while
\* playing, or part_000's export, which toggles the playback off
UserStop == isPlaying /\ (PlayControl \/ OldClickExport)
\* the step with which the current session ends by itself: in Player.tsx
\* the timer of its last scene, in part_000 its narration's onended
NaturalEnd ==
    \/ \E l \in loops :
          PlayTimer(l) /\ l.session = audioContextRef /\ l.i = sceneCount - 1
    \/ \E s \in 1 .. MaxSessions : OnEnded(s) /\ s = narrationSourceRef

\* C16: playback goes Idle -> Playing -> Idle.  A session started with a
\* narration buffer returns to isPlaying false; isPlaying becomes true only
\* by a play that started the narration, and becomes false again only by a
\* stop of the user or by the natural end of that session.
C16_SessionLifecycle ==
    /\ (isPlaying /\ audioBuffer = "buffer") ~> ~isPlaying
    /\ [][(~isPlaying /\ isPlaying') =>
            (PlayControl /\ audioBuffer = "buffer" /\ NarrationPlaying')]_vars
    /\ [][(isPlaying /\ ~isPlaying') => (UserStop \/ NaturalEnd)]_vars

\* a step in which an export job fails: the recorder cannot be built for
\* the MIME type asked for, or a clip of part_000 fires its error event
ExportFails ==
    \/ (ClickExport \/ OldClickExport) /\ ~RecorderFormatSupported
    \/ HiddenVideoError

C18_ExportTerminates == isExporting ~> ~isExporting

\* the same, for the jobs of part_000 alone
C18_OldExportTerminates ==
    (isExporting /\ variant = OldPlayer) ~> ~isExporting

\* C19: the cleanup of an export runs on every exit path.  Once a job
\* whose recorder was started has ended (isExporting is false again), the
\* recorder is no longer recording, the export's audio context is closed
\* and none of its sources is playing.
C19_ExportCleanup ==
    (~isExporting /\ recorder # "none") =>
        (recorder = "inactive" /\ exportCtx = "closed" /\ captureRunning = {})

\* C20: a MIME type the runtime does not support never fails an export:
\* on a runtime that can record some format, pressing the export control
\* with a narration loaded starts a job and shows no error.
C20_UnsupportedFormatFallsBack ==
    [][((ClickExport \/ OldClickExport) /\ audioBuffer = "buffer"
            /\ supported # {})
         => (alerts' = 0 /\ isExporting')]_vars

\* C21: no playback state survives the hard reset.  Once the Player is
\* unmounted no narration or background source is running, and no step
\* changes the scene index, the playing flag or a scene element.
C21_NothingSurvivesReset ==
    /\ [](~mounted => running = {})
    /\ [][~mounted => UNCHANGED uiVars]_vars

\* the step in which an export job starts its recorder and its sources
MixStarts == recorder # "recording" /\ recorder' = "recording"

\* C22: in an export job the audio mix starts synchronously with the
\* first frame: the step that starts the sources and the recorder does
\* not leave the job suspended at the load of an asset, with no frame
\* drawn.
C22_MixStartsWithFirstFrame ==
    [][MixStarts => (exportPc' # "load" /\ (variant = NewPlayer => drawCount' > 0))]_vars

\* a step that draws a frame on the export canvas: an iteration of
\* Player.tsx's frame loop, or part_000's drawFrame, first called from
\* onloadeddata
FrameDrawn == drawCount' > drawCount \/ HiddenVideoLoaded

\* the scenes whose asset has signalled ready: Player.tsx loads them all in
\* turn; part_000 loads a scene's clip when the scene's turn comes
AssetsReady ==
    IF variant = NewPlayer THEN loaded
    ELSE IF exportPc = "playing" THEN loaded + 1 ELSE loaded

\* C23: in an export job no frame is drawn before every visual asset of
\* every scene has signalled ready.
C23_NoFrameBeforeAssets ==
    [][FrameDrawn => AssetsReady' = sceneCount]_vars

\* the same for Player.tsx alone, as a state predicate
C23_NewPlayerAssetsFirst ==
    (variant = NewPlayer /\ drawCount > 0) => loaded = sceneCount

\* every frame of the job has been drawn (Player.tsx), every scene has been
\* played (part_000)
AllFramesDrawn ==
    IF variant = NewPlayer THEN drawCount = totalFrames /\ frame = totalFrames
    ELSE loaded = sceneCount

\* the recorder has been stopped and the export's audio context closed
RecordingClosed == recorder = "inactive" /\ exportCtx = "closed"

\* C24: the order of a successful export is: all frames drawn, then the
\* recorder stopped and the export's audio context closed, then the
\* recorder's stop callback, then the download.  The job waits for the
\* stop callback only with all frames drawn and the recording closed; the
\* download happens in the step of the stop callback and nowhere else,
\* and once per job.
C24_ExportOrder ==
    /\ [](exportPc = "awaitBlob" =>
            (AllFramesDrawn /\ RecordingClosed /\ downloads = 0))
    /\ [](downloads > 0 =>
            (downloads = 1 /\ AllFramesDrawn /\ RecordingClosed /\ alerts = 0
                /\ ~isExporting))
    /\ [][downloads' > downloads => RecorderStopped]_vars
    /\ [][RecorderStopped => downloads' = 1]_vars

\* a finished export of Player.tsx, and one of part_000
C24_Witness ==
    /\ downloads = 1
    /\ ~isExporting
    /\ AllFramesDrawn
    /\ RecordingClosed

\* the step that starts an export job
JobStarts == (ClickExport \/ OldClickExport) /\ isExporting'

\* the scenes the job has finished with
ScenesCompleted ==
    IF variant = OldPlayer THEN loaded
    ELSE IF exportPc \in {"awaitBlob"} THEN sceneCount ELSE currentScene

\* Math.round(n / d * 100), for n, d >= 0
Percent(n, d) == ((n * 100 * 2) \div d + 1) \div 2

\* C25: the export progress is the percentage of scenes completed: 0 when
\* a job starts, within 0 .. 100, non-decreasing during a job, changed
\* only where a scene is completed, and 100 once the last scene has been
\* processed.
C25_ExportProgress ==
    /\ [](exportProgress \in 0 .. 100)
    /\ [](isExporting => exportProgress = Percent(ScenesCompleted, sceneCount))
    /\ [](exportPc = "awaitBlob" => exportProgress = 100)
    /\ [][JobStarts => exportProgress' = 0]_vars
    /\ [][(isExporting /\ isExporting') => exportProgress' >= exportProgress]_vars
    /\ [][exportProgress' # exportProgress =>
            (JobStarts \/ ScenesCompleted' = ScenesCompleted + 1)]_vars

\* the same for the jobs of part_000 alone
C25_OldExportProgress ==
    /\ [](variant = OldPlayer => exportProgress \in 0 .. 100)
    /\ []((variant = OldPlayer /\ isExporting) =>
            exportProgress = Percent(loaded, sceneCount))
    /\ []((variant = OldPlayer /\ exportPc = "awaitBlob") => exportProgress = 100)
    /\ [][OldClickExport => exportProgress' = 0]_vars
    /\ [][(variant = OldPlayer /\ isExporting /\ isExporting') =>
            exportProgress' >= exportProgress]_vars
    /\ [][(variant = OldPlayer /\ exportProgress' # exportProgress) =>
            (OldClickExport \/ loaded' = loaded + 1)]_vars

\* C26: during live playback at most one scene video element is playing,
\* and it is the element of the current active index.
C26_OneSceneElementPlays ==
    variant = NewPlayer =>
        /\ Cardinality(videoPlaying) <= 1
        /\ \A i \in videoPlaying : i = currentIndex

\* the asset as it is: full opacity, unit scale, no offset
FullDraw == [alpha |-> Rat(1, 1), scale |-> Rat(1, 1), offset |-> Rat(0, 1)]

\* the transition window of the frame drawn has elapsed
WindowElapsed ==
    drawn.frame >= 0 /\ RatLE(transitionFrames, Rat(drawn.frameInScene, 1))

\* C27: after the transition window has elapsed within a scene the asset
\* is drawn at full opacity, unit scale and zero offset whatever the
\* transition kind.
C27_FullDrawAfterWindow ==
    WindowElapsed =>
        \A kind \in TransitionTypes : ApplyTransition(kind, drawn.progress) = FullDraw

\* a frame past the window of the second scene, and in the same job a
\* frame inside a window is drawn differently by the three kinds
C27_Witness ==
    /\ WindowElapsed
    /\ drawn.scene = 1
    /\ RatLE(Rat(21, 1), transitionFrames)
    /\ ApplyTransition("fade", Rat(1, 2)) # ApplyTransition("zoom", Rat(1, 2))
    /\ ApplyTransition("fade", Rat(1, 2)) # ApplyTransition("slide", Rat(1, 2))

\* the container a MIME type names
Container(m) == IF m = Mp4 THEN "mp4" ELSE "webm"
\* the mimeType handed to the recorder, the type of the Blob built in its
\* stop callback, and the extension of a.download
RecorderMime == IF variant = NewPlayer THEN Vp9 ELSE mimeType
BlobType == IF variant = NewPlayer THEN "video/webm" ELSE mimeType
Extension == IF variant = NewPlayer THEN "webm" ELSE exportFormat

\* C28: the extension of the downloaded file names the container that
\* was recorded.  The format selected cannot change while a job runs, and
\* at the download the recorder's MIME type, the blob's type and the
\* extension name one container.
C28_ExtensionNamesContainer ==
    /\ [][isExporting => exportFormat' = exportFormat]_vars
    /\ [][RecorderStopped =>
            (Container(RecorderMime) = Extension /\ Container(BlobType) = Extension)]_vars

\* part_000 has downloaded an MP4 file, on a runtime that also records WebM
C28_Witness ==
    /\ variant = OldPlayer
    /\ downloads = 1
    /\ exportFormat = "mp4"
    /\ supported = {Mp4, Vp9}

\* the scenes that the frames of a finished job resolved to
ScenesRendered == {DrawFrame(f).scene : f \in 0 .. (totalFrames - 1)}

\* C29: in a frame-count-driven export with at least as many frames as
\* scenes, every scene is the resolved scene of some frame drawn.
C29_EverySceneRendered ==
    (variant = NewPlayer /\ exportPc = "awaitBlob" /\ totalFrames >= sceneCount) =>
        (ScenesRendered = Scenes /\ currentScene = sceneCount - 1)

\* the playAll loop l belongs to a session that stopAll has stopped: the
\* context of its session is no longer the one audioContextRef holds
Stale(l) == l.session # audioContextRef

\* C30: once a playback session has been stopped, its scene loop changes
\* neither currentIndex nor prevIndex nor isPlaying, whether or not a new
\* session has been started since.
C30_StoppedLoopIsInert ==
    [][\A l \in loops :
          (PlayTimer(l) /\ Stale(l)) => UNCHANGED <<currentIndex, prevIndex, isPlaying>>]_vars

\* the same while no new session has been started since the stop
C30_StoppedLoopInertWhenIdle ==
    [][\A l \in loops :
          (PlayTimer(l) /\ audioContextRef = 0) =>
              UNCHANGED <<currentIndex, prevIndex, isPlaying>>]_vars

\* C31: at most one export job is active at a time.  While isExporting is
\* true no step invokes the export operation again, and isExporting is
\* true exactly while a job is between its start and its end.
C31_OneExportJob ==
    /\ [][isExporting => ~(ClickExport \/ OldClickExport)]_vars
    /\ [](isExporting <=> exportPc # "idle")
    /\ [](isExporting => ~isExportMenuOpen)
    /\ [][(~isExporting /\ isExporting') => JobStarts]_vars
    /\ [][(isExporting /\ ~isExporting') => (RecorderStopped \/ HiddenVideoError)]_vars

\* a job of each player in the middle of its recording
C31_Witness ==
    /\ isExporting
    /\ recorder = "recording"
    /\ \/ variant = NewPlayer /\ exportPc = "frames" /\ drawCount > 1
       \/ variant = OldPlayer /\ exportPc = "playing" /\ loaded > 0

\* the first session of the run, which nothing has interrupted: no second
\* play, no stop
Uninterrupted == nextSession = 2 /\ audioContextRef = 1

ClipsMatchScript ==
    /\ assets.script.has
    /\ Len(assets.videoUrls) = Len(assets.script.scenes)
    /\ \A i \in 1 .. Len(assets.videoUrls) : assets.videoUrls[i] = assets.script.scenes[i]

\* C33: whenever the App state is COMPLETED, assets.videoUrls is not empty,
\* assets.audioBuffer is not null, there are as many video URLs as scenes in
\* assets.script, and clip i is the clip of the scene whose narration is
\* line i of the final script.
C33_CompletedAssets ==
    state = "COMPLETED" =>
        /\ assets.videoUrls # <<>>
        /\ assets.audioBuffer # "null"
        /\ ClipsMatchScript

\* every clip that a scene of the run carries was generated for that scene
PairedScenes(ps) == \A i \in 1 .. Len(ps) : ps[i].videoUrl \in {NoUrl, ps[i].narration}

\* C34: in a run resumed from the stored assets every video URL assigned to
\* scene i was generated for scene i; a scene that failed earlier is never
\* paired with the clip of another scene.
C34_ResumePairsClips ==
    PairedScenes(pipelineScenes) /\ PairedScenes(scenesWithVideo)

\* C33 in the behaviours in which no run pairs a scene with another scene's
\* clip: there the completed assets are consistent.
C33_CompletedWhenPaired ==
    ([]C34_ResumePairsClips) => []C33_CompletedAssets

\* the stored session is cleared by resetApp, and an absent entry appears
\* only with a step that leaves a run in progress
C35_ResetClearsSession ==
    /\ [][resetApp => ~storage'.present]_vars
    /\ [][(~storage.present /\ storage'.present) => state' \in Generating]_vars

\* C35: after a run reaches COMPLETED the STORAGE_KEY entry is absent from
\* localStorage and stays absent until a new generation begins; likewise
\* after resetApp.
C35_SessionCleared ==
    /\ [](state = "COMPLETED" => ~storage.present)
    /\ C35_ResetClearsSession

\* the steps of a handleGenerate run: its start, and what follows its awaits
RunStart == ClickGenerate \/ (Reload /\ runPc' # "none")
RunStep ==
    \/ \E n \in 1 .. MaxAppScenes : ScriptGenerated(n)
    \/ ScriptFails
    \/ \E ok \in SUBSET (1 .. MaxAppScenes) : ImagesSettled(ok)
    \/ AttemptSucceeds
    \/ \E notFound \in BOOLEAN, keyThrows \in BOOLEAN : AttemptFails(notFound, keyThrows)
    \/ AudioGenerated
    \/ AudioFails

\* the place of a state in GENERATING_SCRIPT -> ... -> COMPLETED
Rank(st) ==
    CASE st = "GENERATING_SCRIPT" -> 1
      [] st = "GENERATING_IMAGE" -> 2
      [] st = "GENERATING_VIDEO" -> 3
      [] st = "GENERATING_AUDIO" -> 4
      [] st = "COMPLETED" -> 5
      [] OTHER -> 0

\* C36: within one handleGenerate run the App state only moves forward
\* through GENERATING_SCRIPT, GENERATING_IMAGE, GENERATING_VIDEO,
\* GENERATING_AUDIO, COMPLETED.  The run starts in GENERATING_SCRIPT, or in
\* GENERATING_IMAGE when a script exists; each of its steps leaves the state,
\* moves it forward or sets ERROR; COMPLETED follows GENERATING_AUDIO only;
\* and ERROR and COMPLETED end the run, so that no COMPLETED follows an
\* ERROR of the same run.
C36_ForwardOnly ==
    /\ [][RunStart =>
            /\ state' \in {"GENERATING_SCRIPT", "GENERATING_IMAGE"}
            /\ (state' = "GENERATING_IMAGE") <=> assets'.script.has]_vars
    /\ [][RunStep =>
            /\ state \in Generating
            /\ \/ state' = state
               \/ state' = "ERROR"
               \/ Rank(state') > Rank(state)
            /\ (state' = "COMPLETED" => state = "GENERATING_AUDIO")
            /\ (state' \in {"ERROR", "COMPLETED"} => runPc' = "none")]_vars
    /\ [](runPc # "none" <=> state \in Generating)
    /\ [][(state' = "COMPLETED" /\ state # "COMPLETED") => AudioGenerated]_vars

\* a run that has gone through every stage with all its scenes
C36_Witness ==
    /\ state = "COMPLETED"
    /\ Len(assets.videoUrls) = MaxAppScenes

\* the scenes of the image stage without those whose request rejected
AfterImages(ok) ==
    SelectSeq(pipelineScenes,
              LAMBDA s : s.videoUrl # NoUrl \/ (s.originalIndex + 1) \in ok)

\* the scenes that the video stage is left with when its last request, the
\* one for the scene at sceneI, ends with or without a clip
AfterVideo(clip) ==
    [i \in 1 .. Len(scenesWithVideo) |-> scenesWithVideo[i].originalIndex] \o
    (IF clip THEN <<pipelineScenes[sceneI].originalIndex>> ELSE <<>>) \o
    [i \in 1 .. (Len(pipelineScenes) - sceneI) |->
        pipelineScenes[sceneI + i].originalIndex]

\* no request follows the one for the scene at sceneI
LastRequest ==
    \A i \in (sceneI + 1) .. Len(pipelineScenes) : pipelineScenes[i].videoUrl # NoUrl

OriginalIndexes(ps) == [i \in 1 .. Len(ps) |-> ps[i].originalIndex]

\* the video stage's step keeps or drops the scene at sceneI and no other:
\* until the last request the loop goes on, and after it the run goes to
\* GENERATING_AUDIO with the scenes kept, or to ERROR when none is kept
VideoStep(clip) ==
    IF ~LastRequest
    THEN /\ runPc' = "video"
         /\ state' = "GENERATING_VIDEO"
         /\ (clip <=> \E i \in 1 .. Len(scenesWithVideo') :
                         scenesWithVideo'[i].originalIndex =
                             pipelineScenes[sceneI].originalIndex)
    ELSE IF AfterVideo(clip) = <<>>
         THEN state' = "ERROR" /\ runPc' = "none"
         ELSE /\ state' = "GENERATING_AUDIO"
              /\ runPc' = "audio"
              /\ OriginalIndexes(pipelineScenes') = AfterVideo(clip)

CallThrew ==
    LET x == pipelineScenes[sceneI].originalIndex
    IN /\ \A i \in 1 .. Len(scenesWithVideo') : scenesWithVideo'[i].originalIndex # x
       /\ CASE runPc' = "video" -> sceneI' > sceneI /\ attempts' = 1 /\ ~isRetry'
            [] runPc' = "audio" ->
                  \A i \in 1 .. Len(pipelineScenes') : pipelineScenes'[i].originalIndex # x
            [] OTHER -> state' = "ERROR"

\* C38: generateVeoVideo makes at most two generation attempts per call.
\* The second attempt is made only after the first has failed with a
\* not-found error, when the first was not a retry and window.aistudio is
\* present; every other failure, and every failure of the retry, is thrown
\* to the caller.
C38_AtMostTwoAttempts ==
    /\ [](attempts <= 2 /\ (isRetry <=> attempts = 2))
    /\ [][attempts' > attempts =>
            \/ attempts = 0 /\ attempts' = 1
            \/ /\ attempts = 1
               /\ attempts' = 2
               /\ aistudio
               /\ ~isRetry
               /\ \E keyThrows \in BOOLEAN : AttemptFails(TRUE, keyThrows)
               /\ ~AttemptSucceeds
               /\ \A keyThrows \in BOOLEAN : ~AttemptFails(FALSE, keyThrows)]_vars
    /\ [][\A notFound \in BOOLEAN, keyThrows \in BOOLEAN :
            (AttemptFails(notFound, keyThrows) /\ (~notFound \/ isRetry \/ ~aistudio))
                => CallThrew]_vars

\* the retry is in flight
C38_Witness ==
    /\ runPc = "video"
    /\ attempts = 2
    /\ isRetry
    /\ aistudio

====
